---- MODULE Spec2Model ----
(***************************************************************************)
(* Model of app.py: a FastAPI application with one route,                  *)
(* POST /analyze-image/, whose coroutine handler reads the uploaded file,  *)
(* opens it as an image, calls a module-level image-to-text pipeline and   *)
(* returns {"result": <output>}.                                           *)
(*                                                                         *)
(* One server process is modelled: the module is imported (the pipeline is *)
(* built), then requests arrive and their handlers run as coroutines on a  *)
(* single event loop.  A coroutine keeps the loop until it awaits          *)
(* something that is not ready or until it finishes.                       *)
(***************************************************************************)
EXTENDS Naturals, Sequences, FiniteSets

VARIABLES
    phase,        \* "import" while the module body runs, then "serving"
    pipe,         \* module global `pipe`: 0 = not bound yet, n = n-th pipeline object
    loads,        \* number of pipeline(...) constructions so far
    req,          \* the multipart form each client sent
    pc,           \* position of each request / handler coroutine
    running,      \* the coroutine the event loop is executing (0 = loop idle)
    image_bytes,  \* handler local `image_bytes`
    image,        \* handler local `image`
    result,       \* handler local `result`
    response,     \* the HTTP response each client received
    calls,        \* history: the calls made to a pipeline object, in order
    sent,         \* history: the responses sent, in order
    trace         \* history: the statements each handler has executed

vars == <<phase, pipe, loads, req, pc, running, image_bytes, image, result,
          response, calls, sent, trace>>

(* ----------------------------- bounds ---------------------------------- *)

NumReqs == 2

Reqs == 1..NumReqs

(* Uploaded contents: a format signature followed by a payload.            *)
ImageFormats == {"PNG"}

FileContents == {<<"PNG", 1>>, <<"PNG", 2>>, <<"TXT", 1>>}

Prompts == {"p1", "p2"}

(* A form field is <<>> when the part is absent and <<value>> otherwise.   *)
FileFields == {<<>>} \cup {<<b>> : b \in FileContents}

PromptFields == {<<>>} \cup {<<p>> : p \in Prompts}

(* ------------------------- values and helpers -------------------------- *)

DefaultPrompt == "Describe this image."

HTTP_OK == 200

HTTP_UNPROCESSABLE == 422

HTTP_SERVER_ERROR == 500

NoBytes == <<"unbound">>

NoImage == [format |-> "unbound", data |-> 0]

NoPrompt == "<not passed>"

NoResult == <<>>

NoResponse == [status |-> 0, body |-> [none |-> TRUE]]

NoForm == [file |-> <<>>, prompt |-> <<>>]

(* File(...): the file part is required.                                   *)
FileOptional == FALSE

FileRequired == TRUE

(* Form("Describe this image."): the value bound to `prompt`.              *)
FormPrompt(field) == IF field = <<>> THEN DefaultPrompt ELSE field[1]

(* Image.open identifies the format from the signature and raises when it  *)
(* recognises none.                                                        *)
IsImage(b) == Len(b) = 2 /\ b[1] \in ImageFormats

ImageOpenNeverRaises(b) == FALSE

ImageOpenRaises(b) == ~IsImage(b)

ImageOpen(b) == IF IsImage(b) THEN [format |-> b[1], data |-> b[2]] ELSE NoImage

(* The arguments of the call on line 13: pipe(image).                      *)
PipeArgsWithPrompt(r) == [image |-> image[r], prompt |-> FormPrompt(req[r].prompt)]

PipeArgs(r) == [image |-> image[r], prompt |-> NoPrompt]

(* The image-to-text pipeline: a deterministic function of what it is      *)
(* given, returning a list of generated-text mappings.                     *)
PipeOutput(model, args) ==
    <<[generated_text |-> <<"caption", model, args.image.data, args.prompt>>]>>

(* The dict returned on line 14.                                           *)
ResponseBodyFirstCall(r) == [result |-> calls[1].out]

ResponseBody(r) == [result |-> result[r]]

(* The event loop can start or resume a coroutine only when it runs none.  *)
AlwaysRunnable == TRUE

LoopIdle == running = 0

Respond(r, status, body) ==
    /\ response' = [response EXCEPT ![r] = [status |-> status, body |-> body]]
    /\ sent' = Append(sent, [req |-> r, status |-> status])

(* ------------------------------- Init ---------------------------------- *)

Init ==
    /\ phase = "import"
    /\ pipe = 0
    /\ loads = 0
    /\ req = [r \in Reqs |-> NoForm]
    /\ pc = [r \in Reqs |-> "none"]
    /\ running = 0
    /\ image_bytes = [r \in Reqs |-> NoBytes]
    /\ image = [r \in Reqs |-> NoImage]
    /\ result = [r \in Reqs |-> NoResult]
    /\ response = [r \in Reqs |-> NoResponse]
    /\ calls = <<>>
    /\ sent = <<>>
    /\ trace = [r \in Reqs |-> <<>>]

(* ------------------------------ actions -------------------------------- *)

(* Lines 6-7: the module body builds the app and the pipeline; the server  *)
(* serves only after the import has finished.                              *)
ImportModule ==
    /\ phase = "import"
    /\ loads' = loads + 1
    /\ pipe' = loads + 1
    /\ phase' = "serving"
    /\ UNCHANGED <<req, pc, running, image_bytes, image, result, response,
                   calls, sent, trace>>

(* A client posts a multipart form to /analyze-image/.                     *)
Arrive(r) ==
    /\ phase = "serving"
    /\ pc[r] = "none"
    /\ \E f \in FileFields, p \in PromptFields :
          req' = [req EXCEPT ![r] = [file |-> f, prompt |-> p]]
    /\ pc' = [pc EXCEPT ![r] = "arrived"]
    /\ UNCHANGED <<phase, pipe, loads, running, image_bytes, image, result,
                   response, calls, sent, trace>>

(* Lines 9-11: the framework binds the parameters; a missing required      *)
(* field is answered 422 without calling the handler.  Otherwise the       *)
(* coroutine starts and runs up to `await file.read()`, which either       *)
(* returns at once (upload held in memory) or suspends the coroutine while *)
(* a worker thread reads the spooled file.                                 *)
DispatchWithAdmission(r) ==
    /\ phase = "serving"
    /\ pc[r] = "arrived"
    /\ LoopIdle
    /\ IF \E q \in Reqs \ {r} : pc[q] \notin {"none", "arrived", "done"}
       THEN /\ Respond(r, 503, [detail |-> "Service Unavailable"])
            /\ pc' = [pc EXCEPT ![r] = "done"]
            /\ UNCHANGED <<running, image_bytes, trace>>
       ELSE IF req[r].file = <<>>
       THEN /\ Respond(r, HTTP_UNPROCESSABLE, [detail |-> "field required"])
            /\ pc' = [pc EXCEPT ![r] = "done"]
            /\ UNCHANGED <<running, image_bytes, trace>>
       ELSE /\ \E inMemory \in BOOLEAN :
                 IF inMemory
                 THEN /\ image_bytes' = [image_bytes EXCEPT ![r] = req[r].file[1]]
                      /\ pc' = [pc EXCEPT ![r] = "decode"]
                      /\ running' = r
                 ELSE /\ pc' = [pc EXCEPT ![r] = "reading"]
                      /\ UNCHANGED <<running, image_bytes>>
            /\ trace' = [trace EXCEPT ![r] = <<"read">>]
            /\ UNCHANGED <<response, sent>>
    /\ UNCHANGED <<phase, pipe, loads, req, image, result, calls>>

Dispatch(r) ==
    /\ phase = "serving"
    /\ pc[r] = "arrived"
    /\ LoopIdle
    /\ IF req[r].file = <<>>
       THEN /\ IF FileRequired
               THEN /\ Respond(r, HTTP_UNPROCESSABLE, [detail |-> "field required"])
                    /\ UNCHANGED trace
               ELSE \* file is None: `file.read` raises inside the handler
                    /\ Respond(r, HTTP_SERVER_ERROR, [detail |-> "Internal Server Error"])
                    /\ trace' = [trace EXCEPT ![r] = <<"read_raise">>]
            /\ pc' = [pc EXCEPT ![r] = "done"]
            /\ UNCHANGED <<running, image_bytes>>
       ELSE /\ \E inMemory \in BOOLEAN :
                 IF inMemory
                 THEN /\ image_bytes' = [image_bytes EXCEPT ![r] = req[r].file[1]]
                      /\ pc' = [pc EXCEPT ![r] = "decode"]
                      /\ running' = r
                 ELSE /\ pc' = [pc EXCEPT ![r] = "reading"]
                      /\ UNCHANGED <<running, image_bytes>>
            /\ trace' = [trace EXCEPT ![r] = <<"read">>]
            /\ UNCHANGED <<response, sent>>
    /\ UNCHANGED <<phase, pipe, loads, req, image, result, calls>>

(* The worker thread finishes reading; the coroutine becomes runnable.     *)
ReadDone(r) ==
    /\ pc[r] = "reading"
    /\ pc' = [pc EXCEPT ![r] = "ready"]
    /\ UNCHANGED <<phase, pipe, loads, req, running, image_bytes, image,
                   result, response, calls, sent, trace>>

(* Line 11: the loop resumes the coroutine, which binds image_bytes.       *)
Resume(r) ==
    /\ pc[r] = "ready"
    /\ LoopIdle
    /\ running' = r
    /\ image_bytes' = [image_bytes EXCEPT ![r] = req[r].file[1]]
    /\ pc' = [pc EXCEPT ![r] = "decode"]
    /\ UNCHANGED <<phase, pipe, loads, req, image, result, response, calls,
                   sent, trace>>

(* Line 12: image = Image.open(io.BytesIO(image_bytes)).  An exception     *)
(* leaves the handler and the framework answers 500.                       *)
DecodeLenient(r) ==
    /\ pc[r] = "decode"
    /\ running = r
    /\ image' = [image EXCEPT ![r] = ImageOpen(image_bytes[r])]
    /\ trace' = [trace EXCEPT ![r] =
                   Append(@, IF IsImage(image_bytes[r]) THEN "decode" ELSE "decode_raise")]
    /\ pc' = [pc EXCEPT ![r] = "infer"]
    /\ UNCHANGED <<phase, pipe, loads, req, running, image_bytes, result,
                   response, calls, sent>>

Decode(r) ==
    /\ pc[r] = "decode"
    /\ running = r
    /\ IF ImageOpenRaises(image_bytes[r])
       THEN /\ Respond(r, HTTP_SERVER_ERROR, [detail |-> "Internal Server Error"])
            /\ trace' = [trace EXCEPT ![r] = Append(@, "decode_raise")]
            /\ pc' = [pc EXCEPT ![r] = "done"]
            /\ running' = 0
            /\ UNCHANGED image
       ELSE /\ image' = [image EXCEPT ![r] = ImageOpen(image_bytes[r])]
            /\ trace' = [trace EXCEPT ![r] = Append(@, "decode")]
            /\ pc' = [pc EXCEPT ![r] = "infer"]
            /\ UNCHANGED <<running, response, sent>>
    /\ UNCHANGED <<phase, pipe, loads, req, image_bytes, result, calls>>

(* Line 13, entry: pipe(image) is called on the loop's thread.             *)
InferCallReloading(r) ==
    /\ pc[r] = "infer"
    /\ running = r
    /\ loads' = loads + 1
    /\ pipe' = loads + 1
    /\ calls' = Append(calls, [req |-> r, model |-> loads + 1, args |-> PipeArgs(r),
                               out |-> PipeOutput(loads + 1, PipeArgs(r))])
    /\ trace' = [trace EXCEPT ![r] = Append(@, "infer_call")]
    /\ pc' = [pc EXCEPT ![r] = "inferring"]
    /\ UNCHANGED <<phase, req, running, image_bytes, image, result, response, sent>>

InferCallCached(r) ==
    /\ pc[r] = "infer"
    /\ running = r
    /\ IF \E i \in 1..Len(calls) : calls[i].args = PipeArgs(r)
       THEN UNCHANGED calls
       ELSE calls' = Append(calls, [req |-> r, model |-> pipe, args |-> PipeArgs(r),
                                    out |-> PipeOutput(pipe, PipeArgs(r))])
    /\ trace' = [trace EXCEPT ![r] = Append(@, "infer_call")]
    /\ pc' = [pc EXCEPT ![r] = "inferring"]
    /\ UNCHANGED <<phase, pipe, loads, req, running, image_bytes, image, result,
                   response, sent>>

InferCall(r) ==
    /\ pc[r] = "infer"
    /\ running = r
    /\ calls' = Append(calls, [req |-> r, model |-> pipe, args |-> PipeArgs(r),
                               out |-> PipeOutput(pipe, PipeArgs(r))])
    /\ trace' = [trace EXCEPT ![r] = Append(@, "infer_call")]
    /\ pc' = [pc EXCEPT ![r] = "inferring"]
    /\ UNCHANGED <<phase, pipe, loads, req, running, image_bytes, image, result,
                   response, sent>>

(* Line 13, exit: the call returns and `result` is bound.                  *)
InferReturn(r) ==
    /\ pc[r] = "inferring"
    /\ running = r
    /\ result' = [result EXCEPT ![r] = PipeOutput(pipe, PipeArgs(r))]
    /\ trace' = [trace EXCEPT ![r] = Append(@, "infer_return")]
    /\ pc' = [pc EXCEPT ![r] = "return"]
    /\ UNCHANGED <<phase, pipe, loads, req, running, image_bytes, image,
                   response, calls, sent>>

(* Line 14: return {"result": result}; the framework answers 200.          *)
Return(r) ==
    /\ pc[r] = "return"
    /\ running = r
    /\ Respond(r, HTTP_OK, ResponseBody(r))
    /\ trace' = [trace EXCEPT ![r] = Append(@, "return")]
    /\ pc' = [pc EXCEPT ![r] = "done"]
    /\ running' = 0
    /\ UNCHANGED <<phase, pipe, loads, req, image_bytes, image, result, calls>>

Next ==
    \/ ImportModule
    \/ \E r \in Reqs : Arrive(r)
    \/ \E r \in Reqs : Dispatch(r)
    \/ \E r \in Reqs : ReadDone(r)
    \/ \E r \in Reqs : Resume(r)
    \/ \E r \in Reqs : Decode(r)
    \/ \E r \in Reqs : InferCall(r)
    \/ \E r \in Reqs : InferReturn(r)
    \/ \E r \in Reqs : Return(r)

Spec == Init /\ [][Next]_vars

(* The import finishes, worker threads finish, the event loop runs every   *)
(* runnable coroutine, and each call of the pipeline returns.  Clients are *)
(* not obliged to send anything.                                           *)
Fairness ==
    /\ WF_vars(ImportModule)
    /\ \A r \in Reqs :
          /\ WF_vars(Dispatch(r))
          /\ WF_vars(ReadDone(r))
          /\ WF_vars(Resume(r))
          /\ WF_vars(Decode(r))
          /\ WF_vars(InferCall(r))
          /\ WF_vars(InferReturn(r))
          /\ WF_vars(Return(r))

FairSpec == Spec /\ Fairness

(* ------------------------- request classes ----------------------------- *)

HasFile(r) == pc[r] # "none" /\ req[r].file # <<>>

MissingFile(r) == pc[r] # "none" /\ req[r].file = <<>>

ValidImage(r) == HasFile(r) /\ IsImage(req[r].file[1])

InvalidImage(r) == HasFile(r) /\ ~IsImage(req[r].file[1])

CallsOf(r) == {i \in 1..Len(calls) : calls[i].req = r}

ResponsesOf(r) == {i \in 1..Len(sent) : sent[i].req = r}

InSection(r) == pc[r] \in {"decode", "infer", "inferring", "return"}

FullTrace == <<"read", "decode", "infer_call", "infer_return", "return">>

IsPrefix(s, t) == Len(s) <= Len(t) /\ \A i \in 1..Len(s) : s[i] = t[i]

(* The status a request gets when nothing but its own form decides it.     *)
OwnStatus(r) ==
    IF req[r].file = <<>> THEN 422
    ELSE IF IsImage(req[r].file[1]) THEN 200 ELSE 500

(* ------------------------------ claims --------------------------------- *)

(* C1: every answered request whose file decodes as an image, whatever its *)
(* prompt field, got 200 and a body {"result": x} where x is the output of *)
(* an inference call made for that request on that request's own image.    *)
C1_ResultOfOwnImage ==
    \A r \in Reqs :
        (pc[r] = "done" /\ ValidImage(r)) =>
            /\ response[r].status = 200
            /\ DOMAIN response[r].body = {"result"}
            /\ \E i \in CallsOf(r) :
                  /\ calls[i].args.image = ImageOpen(req[r].file[1])
                  /\ response[r].body.result = calls[i].out

(* Two answered requests with different images, one without a prompt and   *)
(* one with, the second request's inference having run first.              *)
C1_Witness ==
    /\ pc[1] = "done" /\ pc[2] = "done"
    /\ ValidImage(1) /\ ValidImage(2)
    /\ req[1].file # req[2].file
    /\ req[1].prompt = <<>> /\ req[2].prompt # <<>>
    /\ response[1].status = 200 /\ response[2].status = 200
    /\ Len(calls) = 2 /\ calls[1].req = 2

(* C2: a request whose file does not decode as an image leaves the handler *)
(* at the decode (nothing catches the failure) and is answered with a      *)
(* status other than 200 and a body without a result key.                  *)
C2_NonImageIsError ==
    \A r \in Reqs :
        (pc[r] = "done" /\ InvalidImage(r)) =>
            /\ response[r].status \notin {0, 200}
            /\ "result" \notin DOMAIN response[r].body
            /\ trace[r] = <<"read", "decode_raise">>
            /\ image[r] = NoImage
            /\ result[r] = NoResult
            /\ CallsOf(r) = {}

C2_Witness ==
    \E r \in Reqs :
        /\ pc[r] = "done" /\ InvalidImage(r)
        /\ response[r].status = 500

(* C3: a request without the file field never enters the handler (no read, *)
(* no decode, no inference call) and is answered with a non-200 status.    *)
C3_MissingFileNeverEnters ==
    \A r \in Reqs :
        MissingFile(r) =>
            /\ pc[r] \in {"arrived", "done"}
            /\ running # r
            /\ trace[r] = <<>>
            /\ image_bytes[r] = NoBytes
            /\ image[r] = NoImage
            /\ result[r] = NoResult
            /\ CallsOf(r) = {}
            /\ pc[r] = "done" => response[r].status \notin {0, 200}

C3_Witness ==
    \E r \in Reqs :
        /\ MissingFile(r) /\ pc[r] = "done"
        /\ response[r].status = 422

(* C4: every inference call receives the decoded image of its request and  *)
(* that request's prompt (the submitted text, or the default when the      *)
(* field is omitted).                                                      *)
C4_PromptForwarded ==
    \A i \in 1..Len(calls) :
        /\ calls[i].args.image = ImageOpen(req[calls[i].req].file[1])
        /\ calls[i].args.prompt = FormPrompt(req[calls[i].req].prompt)

(* C5: the pipeline is built exactly once, before any request exists; from *)
(* then on the global names that one object, every inference call runs on  *)
(* it, and every answered valid request succeeded whatever failed before.  *)
C5_ModelLoadedOnce ==
    /\ phase = "import" => (loads = 0 /\ pipe = 0 /\ \A r \in Reqs : pc[r] = "none")
    /\ phase = "serving" => (loads = 1 /\ pipe = 1)
    /\ \A i \in 1..Len(calls) : calls[i].model = 1
    /\ \A r \in Reqs : (pc[r] = "done" /\ ValidImage(r)) => response[r].status = 200

(* A failed request was answered first, a valid one succeeded afterwards.  *)
C5_Witness ==
    /\ Len(sent) = 2
    /\ sent[1].status = 500
    /\ sent[2].status = 200
    /\ pipe = 1

(* C6: each request makes exactly one inference call once its image has    *)
(* been decoded and none otherwise, so the number of calls equals the      *)
(* number of successfully decoded requests (also for repeated contents),   *)
(* and the global model reference is unchanged.                            *)
C6_OneInferencePerDecodedRequest ==
    /\ \A r \in Reqs :
          Cardinality(CallsOf(r)) =
              IF image[r] # NoImage /\ pc[r] \in {"inferring", "return", "done"}
              THEN 1 ELSE 0
    /\ (\A r \in Reqs : pc[r] = "done") =>
          Len(calls) = Cardinality({r \in Reqs : ValidImage(r)})
    /\ phase = "serving" => pipe = 1

(* The same contents posted twice: two inference calls.                    *)
C6_Witness ==
    /\ pc[1] = "done" /\ pc[2] = "done"
    /\ ValidImage(1)
    /\ req[1].file = req[2].file
    /\ Len(calls) = 2

(* C7: a handler executes read, decode, inference, return in that order;   *)
(* inference is called only with a successfully decoded image, and a 200   *)
(* is sent only after the request's inference has returned.                *)
C7_LinearHandler ==
    \A r \in Reqs :
        /\ IsPrefix(trace[r], FullTrace) \/ trace[r] = <<"read", "decode_raise">>
        /\ CallsOf(r) # {} =>
              /\ IsImage(image_bytes[r])
              /\ image[r] = ImageOpen(image_bytes[r])
        /\ response[r].status = 200 =>
              /\ trace[r] = FullTrace
              /\ result[r] # NoResult

C7_Witness ==
    /\ response[1].status = 200 /\ trace[1] = FullTrace
    /\ response[2].status = 500 /\ trace[2] = <<"read", "decode_raise">>

(* C8: a request's answer is decided by its own form alone (never by what  *)
(* else is in flight), it is answered at most once, and under fair         *)
(* scheduling every request that has arrived is eventually answered.       *)
C8_EveryRequestAnswered ==
    /\ [](\A r \in Reqs :
            /\ Cardinality(ResponsesOf(r)) = IF pc[r] = "done" THEN 1 ELSE 0
            /\ pc[r] = "done" => response[r].status = OwnStatus(r))
    /\ \A r \in Reqs : (pc[r] = "arrived") ~> (pc[r] = "done")

(* A request was answered 200 while another one was still in flight.       *)
C8_Witness ==
    \E r, q \in Reqs :
        /\ pc[r] = "done" /\ response[r].status = 200
        /\ pc[q] \in {"reading", "ready"}
        /\ sent[1].req = r

(* C9: at most one handler is between its decode and its return at any     *)
(* moment, and it is the coroutine the event loop is running; so two       *)
(* inference calls never overlap.                                          *)
C9_InferenceNeverOverlaps ==
    /\ Cardinality({r \in Reqs : InSection(r)}) <= 1
    /\ \A r \in Reqs : InSection(r) <=> running = r

(* One request is inside the inference call while another is runnable.     *)
C9_Witness ==
    \E r, q \in Reqs :
        /\ pc[r] = "inferring"
        /\ pc[q] = "ready"

(* C10: two answered requests carrying the same file contents and          *)
(* different prompt fields got the same status and the same body.          *)
C10_PromptIgnored ==
    \A r, q \in Reqs :
        (/\ pc[r] = "done" /\ pc[q] = "done"
         /\ HasFile(r) /\ HasFile(q)
         /\ req[r].file = req[q].file
         /\ req[r].prompt # req[q].prompt) =>
            /\ response[r].status = response[q].status
            /\ response[r].body = response[q].body

C10_Witness ==
    \E r, q \in Reqs :
        /\ pc[r] = "done" /\ pc[q] = "done"
        /\ ValidImage(r)
        /\ req[r].file = req[q].file
        /\ req[r].prompt = <<>> /\ req[q].prompt # <<>>
        /\ response[r].status = 200 /\ response[q].status = 200

====
